---------------------------- MODULE Spec2Model ----------------------------
(***************************************************************************)
(* mtcli-vc: same-time-of-day volume comparison.                           *)
(*                                                                         *)
(* One invocation is modelled as a sequential state machine that walks     *)
(* through volume (CLI) -> obter_comparacao -> calcular_volume_comparativo *)
(* -> obter_dados (initialize, symbol, copy_rates_range, pagination,       *)
(* DataFrame, finally/shutdown) -> aggregation -> exibir_comparacao.       *)
(*                                                                         *)
(* Time is counted in minutes (bars are M1 bars).  A provider timestamp is *)
(* a UTC minute count; the configured time zone is a fixed offset.         *)
(* Floats are modelled exactly: a sum of integer volumes is an integer, a  *)
(* quotient is a fraction <<numerator, denominator>>.                      *)
(*                                                                         *)
(* Every list of bars of the program is made of bars the terminal handed   *)
(* out, so a list is held as a sequence of slices of the terminal's        *)
(* history: [lo, hi, rev] stands for the bars lo..hi of the history, in    *)
(* ascending order, or in descending order when rev.  Rows(..) gives the   *)
(* list itself.                                                            *)
(***************************************************************************)
EXTENDS Integers, Sequences, FiniteSets

(***************************************************************************)
(* Program constants.                                                      *)
(***************************************************************************)
chunk == 1000
MinutesPerDay == 1440
MarginDays == 10
TzOffsetMinutes == -180

(***************************************************************************)
(* Bounds of the model.                                                    *)
(***************************************************************************)
MaxDays == 2
MaxVol == 1
MaxBars == 3

(***************************************************************************)
(* Python's None and a present value.                                      *)
(***************************************************************************)
None == <<>>
Some(x) == <<x>>
Get(o) == o[1]

VARIABLES
    entry,            \* the function the invocation calls: the click
                      \* command volume, obter_comparacao or obter_dados
    days,             \* argument `days` (None or Some(int))
    volume_type,      \* argument `volume_type`
    clock,            \* the wall clock, UTC minutes
    history,          \* the bars the terminal holds, ascending by time:
                      \* `older` one-minute bars, then the bars `recent`
    inclusive,        \* copy_rates_from includes the bar at the cursor
    columns,          \* the fields of the records the terminal returns
    reliable,         \* the terminal answers every call without failure
    pc,               \* position of the invocation
    initialized,      \* obter_dados: local `initialized`
    rates,            \* obter_dados: local `rates`
    candles_total,    \* obter_dados: local `candles_total`
    fetched,          \* obter_dados: local `fetched`
    cursor_time,      \* obter_dados: local `cursor_time`
    exc,              \* the exception in flight (NoExc when none)
    df,               \* the DataFrame returned by obter_dados
    initialize_calls, \* number of mt5.initialize() calls made
    shutdown_calls,   \* number of mt5.shutdown() calls made
    fetch_calls,      \* number of copy_rates_range / copy_rates_from calls
    page_requests,    \* number of copy_rates_from calls made
    logged,           \* log.warning / log.exception records written
    dados,            \* what obter_comparacao returned
    output            \* the lines written by click.echo, in order

inputs == <<entry, days, volume_type, clock, history, inclusive, columns,
            reliable>>
paging == <<candles_total, fetched, cursor_time>>
calls == <<initialize_calls, shutdown_calls, fetch_calls, page_requests>>

vars == <<inputs, pc, initialized, rates, paging, exc, df, calls, logged,
          dados, output>>

(***************************************************************************)
(* Sequences.                                                              *)
(***************************************************************************)
\* lista[::-1]
Reverse(s) ==
    [i \in 1..Len(s) |-> [lo |-> s[Len(s) + 1 - i].lo,
                          hi |-> s[Len(s) + 1 - i].hi,
                          rev |-> ~s[Len(s) + 1 - i].rev]]

RECURSIVE SumRange(_, _, _)
SumRange(s, lo, hi) ==
    IF lo > hi THEN 0
    ELSE IF lo = hi THEN s[lo]
    ELSE LET mid == (lo + hi) \div 2
         IN  SumRange(s, lo, mid) + SumRange(s, mid + 1, hi)

Sum(s) == SumRange(s, 1, Len(s))

SetMax(S) == CHOOSE m \in S : \A x \in S : x <= m

RECURSIVE SortedDesc(_)
SortedDesc(S) ==
    IF S = {} THEN <<>>
    ELSE LET m == SetMax(S) IN <<m>> \o SortedDesc(S \ {m})

Take(s, n) == SubSeq(s, 1, IF n < Len(s) THEN n ELSE Len(s))

\* len(lista)
ListLen(s) == Sum([i \in 1..Len(s) |-> s[i].hi - s[i].lo + 1])

\* the index in the history of lista[0]
FirstIdx(s) == IF s[1].rev THEN s[1].hi ELSE s[1].lo

(***************************************************************************)
(* Time zone and calendar.                                                 *)
(***************************************************************************)
ToLocal(t) == t + TzOffsetMinutes
DateOf(localT) == localT \div MinutesPerDay
HoraOf(localT) == localT % MinutesPerDay
StrfHM(localT) == <<HoraOf(localT) \div 60, HoraOf(localT) % 60>>

(***************************************************************************)
(* Exact arithmetic on floats: fractions <<n, d>>.  A denominator of 0 is  *)
(* the result of a division by zero.                                       *)
(***************************************************************************)
FInt(n) == <<n, 1>>
FSub(x, y) == <<x[1] * y[2] - y[1] * x[2], x[2] * y[2]>>
FDiv(x, y) == IF y[1] < 0 THEN <<-(x[1] * y[2]), -(x[2] * y[1])>>
              ELSE <<x[1] * y[2], x[2] * y[1]>>
FMul(x, y) == <<x[1] * y[1], x[2] * y[2]>>
FPos(x) == x[1] * x[2] > 0
FZero == <<0, 1>>
DivByZero(x) == x[2] = 0


(***************************************************************************)
(* Exceptions.  The message is what str(exc) gives.                        *)
(***************************************************************************)
NoExc == [type |-> "", msg |-> ""]
Exc(t, m) == [type |-> t, msg |-> m]
MsgDaysCli == "O numero de dias (--days) deve ser inteiro maior ou igual a 1."
MsgDaysCalc == "O parametro 'days' deve ser inteiro >= 1."
MsgDaysObter == "Parametro 'days' deve ser inteiro positivo."
MsgConnect == "Erro ao conectar ao MetaTrader5"
MsgSelect == "Nao foi possivel selecionar o simbolo"
MsgNoData == "Nenhum dado retornado"
MsgColumn == "Coluna nao encontrada nos dados"
MsgNoPrior == "Nao foi possivel encontrar o ultimo dia de pregao valido antes de hoje."
MsgProvider == "falha do terminal"
MsgPandas == "falha ao construir o DataFrame"
MsgZeroDiv == "float division by zero"

(***************************************************************************)
(* The DataFrame: its columns and its rows.                                *)
(***************************************************************************)
ColVal(row, col_volume) ==
    IF col_volume = "tick_volume" THEN row.tick_volume ELSE row.real_volume

\* df["date"].unique()
Dates(rows) == {DateOf(rows[i].time) : i \in 1..Len(rows)}

\* df.loc[df["date"] == dia, col_volume].sum()
DaySum(rows, dia, col_volume) ==
    Sum([i \in 1..Len(rows) |->
            IF DateOf(rows[i].time) = dia THEN ColVal(rows[i], col_volume) ELSE 0])

\* faulty variant: the bar at the cutoff minute is left out (< for <=)
CutSumStrict(rows, dia, hora_atual, col_volume) ==
    Sum([i \in 1..Len(rows) |->
            IF DateOf(rows[i].time) = dia /\ HoraOf(rows[i].time) < hora_atual
            THEN ColVal(rows[i], col_volume) ELSE 0])

\* df.loc[(df["date"] == dia) & (df["hora"] <= hora_atual), col_volume].sum()
CutSum(rows, dia, hora_atual, col_volume) ==
    Sum([i \in 1..Len(rows) |->
            IF DateOf(rows[i].time) = dia /\ HoraOf(rows[i].time) <= hora_atual
            THEN ColVal(rows[i], col_volume) ELSE 0])

\* faulty variant: today is not skipped (> for >=)
RECURSIVE ScanDiasToday(_, _, _, _, _)
ScanDiasToday(dias, i, rows, hoje, col_volume) ==
    IF i > Len(dias) THEN None
    ELSE IF dias[i] > hoje THEN ScanDiasToday(dias, i + 1, rows, hoje, col_volume)
    ELSE IF DaySum(rows, dias[i], col_volume) > 0 THEN Some(dias[i])
    ELSE ScanDiasToday(dias, i + 1, rows, hoje, col_volume)

RECURSIVE ScanDias(_, _, _, _, _)
ScanDias(dias, i, rows, hoje, col_volume) ==
    IF i > Len(dias) THEN None
    ELSE IF dias[i] >= hoje THEN ScanDias(dias, i + 1, rows, hoje, col_volume)
    ELSE IF DaySum(rows, dias[i], col_volume) > 0 THEN Some(dias[i])
    ELSE ScanDias(dias, i + 1, rows, hoje, col_volume)

encontrar_ultimo_dia_com_volume(rows, hoje, col_volume) ==
    IF rows = <<>> THEN None
    ELSE ScanDias(SortedDesc(Dates(rows)), 1, rows, hoje, col_volume)

\* faulty variant: the zero-volume dates are dropped before the n dates are taken
dias_passados_validos(rows, hoje, n, col_volume) ==
    Take(SelectSeq(SortedDesc(Dates(rows)),
                   LAMBDA d : d < hoje /\ DaySum(rows, d, col_volume) > 0), n)

\* [d for d in sorted(df["date"].unique(), reverse=True) if d < hoje][:days]
dias_passados(rows, hoje, n, col_volume) ==
    Take(SelectSeq(SortedDesc(Dates(rows)), LAMBDA d : d < hoje), n)

volumes(rows, hoje, hora_atual, n, col_volume) ==
    LET kept == SelectSeq(dias_passados(rows, hoje, n, col_volume),
                          LAMBDA d : DaySum(rows, d, col_volume) > 0)
    IN  [i \in 1..Len(kept) |-> CutSum(rows, kept[i], hora_atual, col_volume)]

vol_medio(vols) ==
    IF vols # <<>> THEN FDiv(FInt(Sum(vols)), FInt(Len(vols))) ELSE FZero

\* faulty variant: the guard against a base of 0 is missing
PercUnguarded(vol_hoje, base) ==
    FMul(FDiv(FSub(vol_hoje, base), base), FInt(100))

\* ((vol_hoje - base) / base * 100.0) if base > 0 else 0.0
Perc(vol_hoje, base) ==
    IF FPos(base)
    THEN FMul(FDiv(FSub(vol_hoje, base), base), FInt(100))
    ELSE FZero

(***************************************************************************)
(* The terminal (MetaTrader5).                                             *)
(***************************************************************************)
\* the time of the oldest bar of `recent`; the older bars precede it
RecentStart == IF history.recent = <<>> THEN clock + 1
               ELSE history.recent[1].time

HistLen == history.older + Len(history.recent)

HistBar(i) ==
    IF i <= history.older
    THEN [time |-> RecentStart - (history.older - i + 1),
          tick_volume |-> 1, real_volume |-> i % 2]
    ELSE history.recent[i - history.older]

\* how many bars of the history are not newer than t / older than t; the
\* older bars are at the minutes RecentStart - older .. RecentStart - 1
CountUpTo(t) ==
    LET k == t - (RecentStart - history.older) + 1
    IN  (IF k < 0 THEN 0 ELSE IF k > history.older THEN history.older ELSE k)
        + Cardinality({i \in 1..Len(history.recent) : history.recent[i].time <= t})
CountBefore(t) == CountUpTo(t - 1)

Slice(lo, hi) == IF lo > hi THEN <<>> ELSE <<[lo |-> lo, hi |-> hi, rev |-> FALSE]>>

\* copy_rates_range(symbol, M1, inicio, agora): the bars of the window
copy_rates_range(inicio, agora) == Slice(CountBefore(inicio) + 1, CountUpTo(agora))

\* copy_rates_from(symbol, M1, cursor, count): the `count` most recent bars
\* up to the cursor, in ascending order; terminals differ on whether the bar
\* at the cursor itself is included
copy_rates_from(cursor, count) ==
    LET n == IF inclusive THEN CountUpTo(cursor) ELSE CountBefore(cursor)
    IN  Slice(IF n > count THEN n - count + 1 ELSE 1, n)

\* the bars of a list, in the order of the list
RECURSIVE Rows(_)
Rows(s) ==
    IF s = <<>> THEN <<>>
    ELSE [i \in 1..(s[1].hi - s[1].lo + 1) |->
            HistBar(IF s[1].rev THEN s[1].hi + 1 - i ELSE s[1].lo - 1 + i)]
         \o Rows(Tail(s))

Flaky(ok, S) == IF reliable THEN {ok} ELSE S

(***************************************************************************)
(* Inputs.  The invocation happens at 10:00 local time of day 20; the      *)
(* terminal holds bars at the cutoff minute and at the minute after it on  *)
(* the three previous dates, and at the minute before the cutoff and at    *)
(* the cutoff today.  A bar's two volume fields differ whenever possible.  *)
(***************************************************************************)
SYMBOL == "WIN$N"
NowLocal == 20 * MinutesPerDay + 600
NowUtc == NowLocal - TzOffsetMinutes
SlotTimes ==
    {NowUtc - 1, NowUtc} \cup
    {NowUtc - k * MinutesPerDay + m : k \in 1..3, m \in {0, 1}}
Bar(t, v) == [time |-> t, tick_volume |-> v, real_volume |-> MaxVol - v]
Bars == {Bar(t, v) : t \in SlotTimes, v \in 0..MaxVol}
\* the series of n bars of B in strictly ascending order of time
RECURSIVE Ascending(_, _)
Ascending(B, n) ==
    IF n = 0 THEN {<<>>}
    ELSE {h \in {Append(g, x) : g \in Ascending(B, n - 1), x \in B} :
            n = 1 \/ h[n - 1].time < h[n].time}
Histories == UNION {Ascending(Bars, n) : n \in 0..MaxBars}
FlakyHistories ==
    UNION {Ascending({[time |-> t, tick_volume |-> 1, real_volume |-> 1] :
                        t \in SlotTimes}, n) : n \in 0..2}
\* lengths of a run of one-minute bars, the newest at the invocation minute
LongLengths == {0, 1, 999, 1000, 1001, 2500, 15840, 16000, 20000}
AllColumns == {"time", "tick_volume", "real_volume"}

Locals ==
    /\ initialized = FALSE
    /\ rates = None
    /\ candles_total = <<>>
    /\ fetched = 0
    /\ cursor_time = 0
    /\ exc = NoExc
    /\ df = None
    /\ initialize_calls = 0
    /\ shutdown_calls = 0
    /\ fetch_calls = 0
    /\ page_requests = 0
    /\ logged = {}
    /\ dados = None
    /\ output = <<>>
    /\ clock = NowUtc
    /\ pc = IF entry = "volume" THEN "volume"
            ELSE IF entry = "obter_comparacao" THEN "calcular"
            ELSE "obter_dados"

\* a healthy terminal, every bar series and every valid argument
InitNominal ==
    /\ reliable = TRUE
    /\ entry = "volume"
    /\ days \in {Some(n) : n \in 1..MaxDays}
    /\ volume_type \in {"tick", "real"}
    /\ history \in {[older |-> 0, recent |-> h] : h \in Histories}
    /\ inclusive = FALSE
    /\ columns = AllColumns
    /\ Locals

\* a terminal that may fail at any call, and arguments that may be invalid
InitFlaky ==
    /\ reliable = FALSE
    /\ entry \in {"volume", "obter_comparacao", "obter_dados"}
    /\ days \in {None} \cup {Some(n) : n \in -1..1}
    /\ volume_type \in {"tick", "real"}
    /\ history \in {[older |-> 0, recent |-> h] : h \in FlakyHistories}
    /\ inclusive \in BOOLEAN
    /\ columns \in {AllColumns, AllColumns \ {"real_volume"}}
    /\ Locals

\* a terminal with a long history of one-minute bars
InitLong ==
    /\ reliable = FALSE
    /\ entry \in {"volume", "obter_comparacao", "obter_dados"}
    /\ days \in {Some(n) : n \in 0..MaxDays}
    /\ volume_type = "tick"
    /\ history \in {[older |-> n, recent |-> <<>>] : n \in LongLengths}
    /\ entry = "obter_dados" \/ history.older <= 1
    /\ inclusive \in BOOLEAN
    /\ columns = AllColumns
    /\ Locals

Init == InitNominal \/ InitFlaky

(***************************************************************************)
(* volume (the click command): validates --days, then calls the controller *)
(* and hands its answer to the view.                                       *)
(***************************************************************************)
volume ==
    /\ pc = "volume"
    /\ IF days = None \/ Get(days) < 1
       THEN /\ exc' = Exc("BadParameter", MsgDaysCli)
            /\ pc' = "done"
       ELSE /\ exc' = exc
            /\ pc' = "calcular"
    /\ UNCHANGED <<inputs, initialized, rates, paging, df, calls, logged,
                   dados, output>>

(***************************************************************************)
(* calcular_volume_comparativo, called inside obter_comparacao's try: the  *)
(* argument check that precedes obter_dados.                               *)
(***************************************************************************)
\* faulty variant: days = 0 is let through (< 0 for < 1)
InvalidDaysNegative(d) == d = None \/ Get(d) < 0

\* if days is None or days < 1
InvalidDays(d) == d = None \/ Get(d) < 1

calcular_check_days ==
    /\ pc = "calcular"
    /\ IF InvalidDays(days)
       THEN /\ exc' = Exc("ValueError", MsgDaysCalc)
            /\ pc' = "except"
       ELSE /\ exc' = exc
            /\ pc' = "obter_dados"
    /\ UNCHANGED <<inputs, initialized, rates, paging, df, calls, logged,
                   dados, output>>

(***************************************************************************)
(* obter_dados: argument check, window, mt5.initialize().  The check is    *)
(* outside the try block.                                                  *)
(***************************************************************************)
obter_dados_initialize ==
    /\ pc = "obter_dados"
    /\ IF days = None \/ Get(days) < 1
       THEN /\ exc' = Exc("ValueError", MsgDaysObter)
            /\ pc' = IF entry = "obter_dados" THEN "done" ELSE "except"
            /\ UNCHANGED <<initialized, initialize_calls>>
       ELSE \E ok \in Flaky(TRUE, BOOLEAN) :
            /\ initialize_calls' = initialize_calls + 1
            /\ initialized' = ok
            /\ IF ok
               THEN exc' = exc /\ pc' = "od_symbol"
               ELSE exc' = Exc("RuntimeError", MsgConnect) /\ pc' = "od_finally"
    /\ UNCHANGED <<inputs, rates, paging, df, shutdown_calls, fetch_calls,
                   page_requests, logged, dados, output>>

(***************************************************************************)
(* obter_dados: symbol_info / symbol_select.                               *)
(***************************************************************************)
obter_dados_symbol ==
    /\ pc = "od_symbol"
    /\ \E visible \in Flaky(TRUE, BOOLEAN) :
        IF visible
        THEN exc' = exc /\ pc' = "od_range" /\ logged' = logged
        ELSE /\ logged' = logged \cup {"warning: simbolo nao visivel"}
             /\ \E selected \in Flaky(TRUE, BOOLEAN) :
                IF selected
                THEN exc' = exc /\ pc' = "od_range"
                ELSE exc' = Exc("RuntimeError", MsgSelect) /\ pc' = "od_finally"
    /\ UNCHANGED <<inputs, initialized, rates, paging, df, calls, dados,
                   output>>

(***************************************************************************)
(* obter_dados: copy_rates_range, and the set-up of the pagination         *)
(* fallback when it fails with code -2.                                    *)
(***************************************************************************)
obter_dados_copy_rates_range ==
    /\ pc = "od_range"
    /\ fetch_calls' = fetch_calls + 1
    /\ LET agora == clock
           inicio == clock - (Get(days) + MarginDays) * MinutesPerDay
       IN  \E code \in Flaky(0, {0, -1, -2}) :
            IF code = 0
            THEN /\ rates' = Some(copy_rates_range(inicio, agora))
                 /\ pc' = "od_dataframe"
                 /\ UNCHANGED <<paging, logged>>
            ELSE /\ logged' = logged \cup {"warning: copy_rates_range"}
                 /\ rates' = None
                 /\ IF code = -2
                    THEN /\ candles_total' = <<>>
                         /\ fetched' = 0
                         /\ cursor_time' = agora
                         /\ pc' = "od_page"
                    ELSE /\ pc' = "od_dataframe"
                         /\ UNCHANGED paging
    /\ UNCHANGED <<inputs, initialized, exc, df, initialize_calls,
                   shutdown_calls, page_requests, dados, output>>

(***************************************************************************)
(* obter_dados: one turn of the pagination loop (the loop test, one        *)
(* copy_rates_from call, the two breaks), and on leaving the loop the      *)
(* reversal candles_total[::-1].                                           *)
(***************************************************************************)
\* total_candles = int((days + 10) * 1440)
total_candles(d) == (Get(d) + MarginDays) * MinutesPerDay

\* while fetched < total_candles
LoopTest(n, total) == n < total

\* faulty variant: a short page does not end the loop
ShortPageNever(rates_chunk) == FALSE

\* if len(rates_chunk) < chunk: break
ShortPage(rates_chunk) == ListLen(rates_chunk) < chunk

obter_dados_page ==
    /\ pc = "od_page"
    /\ IF ~LoopTest(fetched, total_candles(days))
       THEN /\ rates' = Some(Reverse(candles_total))
            /\ pc' = "od_dataframe"
            /\ UNCHANGED <<paging, exc, fetch_calls, page_requests>>
       ELSE /\ fetch_calls' = fetch_calls + 1
            /\ page_requests' = page_requests + 1
            /\ \E answer \in {"bars", "none", "raise"} :
                IF answer = "raise"
                THEN /\ exc' = Exc("RuntimeError", MsgProvider)
                     /\ pc' = "od_finally"
                     /\ UNCHANGED <<rates, paging>>
                ELSE LET rates_chunk ==
                            IF answer = "none" THEN <<>>
                            ELSE copy_rates_from(cursor_time, chunk)
                     IN  /\ exc' = exc
                         /\ IF ListLen(rates_chunk) = 0
                            THEN /\ rates' = Some(Reverse(candles_total))
                                 /\ pc' = "od_dataframe"
                                 /\ UNCHANGED paging
                            ELSE /\ candles_total' = candles_total \o rates_chunk
                                 /\ fetched' = fetched + ListLen(rates_chunk)
                                 /\ cursor_time' =
                                        HistBar(FirstIdx(rates_chunk)).time
                                 /\ IF ShortPage(rates_chunk)
                                    THEN /\ rates' = Some(Reverse(candles_total'))
                                         /\ pc' = "od_dataframe"
                                    ELSE /\ rates' = rates
                                         /\ pc' = "od_page"
    /\ UNCHANGED <<inputs, initialized, df, initialize_calls, shutdown_calls,
                   logged, dados, output>>

(***************************************************************************)
(* obter_dados: the no-data check and the construction of the DataFrame,   *)
(* whose time column is converted to the configured time zone.             *)
(***************************************************************************)
\* the rows of the DataFrame
DfRows(d) ==
    LET r == Rows(d.bars)
    IN  [i \in 1..Len(r) |-> [time |-> ToLocal(r[i].time),
                              tick_volume |-> r[i].tick_volume,
                              real_volume |-> r[i].real_volume]]

obter_dados_dataframe ==
    /\ pc = "od_dataframe"
    /\ pc' = "od_finally"
    /\ IF rates = None \/ ListLen(Get(rates)) = 0
       THEN /\ exc' = Exc("RuntimeError", MsgNoData)
            /\ df' = df
       ELSE \E ok \in Flaky(TRUE, BOOLEAN) :
            IF ok
            THEN /\ exc' = exc
                 /\ df' = Some([columns |-> columns, bars |-> Get(rates)])
            ELSE /\ exc' = Exc("RuntimeError", MsgPandas)
                 /\ df' = df
    /\ UNCHANGED <<inputs, initialized, rates, paging, calls, logged, dados,
                   output>>

(***************************************************************************)
(* obter_dados: the finally block, then the return or the propagation of   *)
(* the exception in flight.  The locals die with the call.                 *)
(***************************************************************************)
\* faulty variant: shutdown is reached only when nothing was raised
ShutdownOnSuccess(init, e) == init /\ e = NoExc

\* if initialized:
ShutdownDue(init, e) == init

\* except Exception: log.exception(...) -- the exception of shutdown is dropped
ExcAfterFinally(e, shutdown_ok) == e

obter_dados_finally ==
    /\ pc = "od_finally"
    /\ IF ShutdownDue(initialized, exc)
       THEN \E shutdown_ok \in Flaky(TRUE, BOOLEAN) :
            /\ shutdown_calls' = shutdown_calls + 1
            /\ logged' = IF shutdown_ok THEN logged
                         ELSE logged \cup {"exception: shutdown"}
            /\ exc' = ExcAfterFinally(exc, shutdown_ok)
       ELSE UNCHANGED <<shutdown_calls, logged, exc>>
    /\ pc' = IF entry = "obter_dados" THEN "done"
             ELSE IF exc' = NoExc THEN "aggregate" ELSE "except"
    /\ rates' = None
    /\ candles_total' = <<>>
    /\ UNCHANGED <<inputs, initialized, fetched, cursor_time, df,
                   initialize_calls, fetch_calls, page_requests, dados, output>>

(***************************************************************************)
(* calcular_volume_comparativo after obter_dados: the aggregation.  Its    *)
(* return value is what obter_comparacao returns; the click command then   *)
(* hands it to the view.                                                   *)
(***************************************************************************)
\* "tick_volume" if volume_type == "tick" else "real_volume"
ColVolume(vt) == IF vt = "tick" THEN "tick_volume" ELSE "real_volume"

Comparativo(rows, agora, n, vt) ==
    LET hora_atual == HoraOf(agora)
        hoje == DateOf(agora)
        col_volume == ColVolume(vt)
        vol_hoje == CutSum(rows, hoje, hora_atual, col_volume)
        ontem == encontrar_ultimo_dia_com_volume(rows, hoje, col_volume)
        vol_ontem == CutSum(rows, Get(ontem), hora_atual, col_volume)
        medio == vol_medio(volumes(rows, hoje, hora_atual, n, col_volume))
    IN  [symbol |-> SYMBOL,
         hora_atual |-> StrfHM(agora),
         vol_hoje |-> vol_hoje,
         vol_ontem |-> vol_ontem,
         vol_medio |-> medio,
         perc_ontem |-> Perc(FInt(vol_hoje), FInt(vol_ontem)),
         perc_medio |-> Perc(FInt(vol_hoje), medio),
         volume_type |-> vt,
         days |-> n,
         ultimo_pregao |-> Get(ontem)]

AfterReturn == IF entry = "volume" THEN "exibir" ELSE "done"

calcular_aggregate ==
    /\ pc = "aggregate"
    /\ LET agora == ToLocal(clock)
           rows == DfRows(Get(df))
           col_volume == ColVolume(volume_type)
           r == Comparativo(rows, agora, Get(days), volume_type)
       IN  IF col_volume \notin Get(df).columns
           THEN /\ exc' = Exc("ValueError", MsgColumn)
                /\ pc' = "except" /\ dados' = dados
           ELSE IF encontrar_ultimo_dia_com_volume(rows, DateOf(agora),
                                                   col_volume) = None
           THEN /\ exc' = Exc("RuntimeError", MsgNoPrior)
                /\ pc' = "except" /\ dados' = dados
           ELSE IF DivByZero(r.perc_ontem) \/ DivByZero(r.perc_medio)
           THEN /\ exc' = Exc("ZeroDivisionError", MsgZeroDiv)
                /\ pc' = "except" /\ dados' = dados
           ELSE /\ exc' = exc
                /\ pc' = AfterReturn /\ dados' = Some(r)
    /\ UNCHANGED <<inputs, initialized, rates, paging, df, calls, logged,
                   output>>

(***************************************************************************)
(* obter_comparacao: except Exception -> {"erro": str(exc)}.               *)
(***************************************************************************)
\* faulty variant: only ValueError is caught
CaughtValueError(e) == e.type = "ValueError"

\* except Exception as exc
Caught(e) == TRUE

obter_comparacao_except ==
    /\ pc = "except"
    /\ IF Caught(exc)
       THEN /\ logged' = logged \cup {"exception: comparacao"}
            /\ dados' = Some([erro |-> exc.msg])
            /\ exc' = NoExc
            /\ pc' = AfterReturn
       ELSE /\ pc' = "done"
            /\ UNCHANGED <<logged, dados, exc>>
    /\ UNCHANGED <<inputs, initialized, rates, paging, df, calls, output>>

(***************************************************************************)
(* exibir_comparacao: one click.echo per entry of `output`.                *)
(***************************************************************************)
ErrorLines(d) == <<[echo |-> "Erro", value |-> d.erro]>>

ReportLines(d) ==
    <<[echo |-> "Comparativo de Volume", value |-> d.symbol],
      [echo |-> "Horario atual", value |-> d.hora_atual],
      [echo |-> "Tipo de volume", value |-> d.volume_type],
      [echo |-> "Media baseada em", value |-> d.days],
      [echo |-> "Ultimo pregao considerado", value |-> d.ultimo_pregao],
      [echo |-> "Volume de hoje", value |-> d.vol_hoje],
      [echo |-> "Volume do ultimo pregao ate esse horario", value |-> d.vol_ontem],
      [echo |-> "Volume medio ate esse horario", value |-> d.vol_medio],
      [echo |-> "", value |-> ""],
      [echo |-> "Hoje vs Ultimo pregao", value |-> d.perc_ontem],
      [echo |-> "Hoje vs Media", value |-> d.perc_medio]>>

\* if "erro" in dados
HasErro(d) == "erro" \in DOMAIN d

exibir_comparacao ==
    /\ pc = "exibir"
    /\ output' = IF HasErro(Get(dados)) THEN ErrorLines(Get(dados))
                 ELSE ReportLines(Get(dados))
    /\ pc' = "done"
    /\ UNCHANGED <<inputs, initialized, rates, paging, exc, df, calls, logged,
                   dados>>

Next ==
    \/ volume
    \/ calcular_check_days
    \/ obter_dados_initialize
    \/ obter_dados_symbol
    \/ obter_dados_copy_rates_range
    \/ obter_dados_page
    \/ obter_dados_dataframe
    \/ obter_dados_finally
    \/ calcular_aggregate
    \/ obter_comparacao_except
    \/ exibir_comparacao

Spec == Init /\ [][Next]_vars

SpecLong == InitLong /\ [][Next]_vars

\* the sequential program keeps running until it returns
FairSpecLong == SpecLong /\ WF_vars(Next)

(***************************************************************************)
(* What the properties below are stated in: the rows of the DataFrame, the *)
(* selected volume of a row, and sums written as plain recursions.         *)
(***************************************************************************)
ExpRows == DfRows(Get(df))
ExpSel(row) == IF volume_type = "tick" THEN row.tick_volume ELSE row.real_volume
ExpColumn == IF volume_type = "tick" THEN "tick_volume" ELSE "real_volume"
ExpHoje == (clock + TzOffsetMinutes) \div MinutesPerDay
ExpCutoff == (clock + TzOffsetMinutes) % MinutesPerDay

RECURSIVE ExpAcc(_, _, _, _)
ExpAcc(rows, k, d, h) ==
    IF k = 0 THEN 0
    ELSE ExpAcc(rows, k - 1, d, h)
         + (IF /\ rows[k].time \div MinutesPerDay = d
               /\ rows[k].time % MinutesPerDay <= h
            THEN ExpSel(rows[k]) ELSE 0)

ExpFullDay(d) == ExpAcc(ExpRows, Len(ExpRows), d, MinutesPerDay - 1)
ExpCutDay(d) == ExpAcc(ExpRows, Len(ExpRows), d, ExpCutoff)

RECURSIVE ExpCutTotal(_)
ExpCutTotal(S) ==
    IF S = {} THEN 0
    ELSE LET d == CHOOSE x \in S : TRUE
         IN  ExpCutDay(d) + ExpCutTotal(S \ {d})

ExpPrior == {d \in {ExpRows[i].time \div MinutesPerDay : i \in 1..Len(ExpRows)} :
                d < ExpHoje}
ExpValid == {d \in ExpPrior : ExpFullDay(d) > 0}
ExpNewest(S, k) == {d \in S : Cardinality({e \in S : e > d}) < k}
ExpMax(S) == CHOOSE m \in S : \A x \in S : x <= m
ExpCeilDiv(a, b) == (a + b - 1) \div b

Returned == dados # None
Succeeded == dados # None /\ "erro" \notin DOMAIN dados[1]
Result == dados[1]
TenFields == {"symbol", "hora_atual", "vol_hoje", "vol_ontem", "vol_medio",
              "perc_ontem", "perc_medio", "volume_type", "days",
              "ultimo_pregao"}

(***************************************************************************)
(* C1: the last session chosen is the greatest date before today whose     *)
(* full-day sum of the selected column is > 0; when there is none, the     *)
(* call fails with the no-prior-session error and gives no result.         *)
(***************************************************************************)
C1_LastSession ==
    (Returned /\ df # None /\ ExpColumn \in df[1].columns) =>
        IF ExpValid = {}
        THEN dados = <<[erro |-> MsgNoPrior]>>
        ELSE Succeeded /\ Result.ultimo_pregao = ExpMax(ExpValid)

\* a more recent prior date with full-day sum 0 was skipped
C1_Witness ==
    /\ Succeeded
    /\ \E d \in ExpPrior : d > Result.ultimo_pregao /\ ExpFullDay(d) = 0
    /\ ExpFullDay(ExpHoje) > 0

C3_NSessionAverage ==
    (Succeeded /\ Cardinality(ExpValid) >= days[1]) =>
        LET m == Result.vol_medio
        IN  /\ m[2] # 0
            /\ m[1] * days[1] = ExpCutTotal(ExpNewest(ExpValid, days[1])) * m[2]

(***************************************************************************)
(* C4: vol_hoje and vol_ontem are the sums of the selected column over the *)
(* bars of today, and of the last session, whose time of day is <= the     *)
(* cutoff; vol_ontem never exceeds the last session's full-day sum.        *)
(***************************************************************************)
C4_CutoffSums ==
    Succeeded =>
        /\ Result.vol_hoje = ExpCutDay(ExpHoje)
        /\ Result.vol_ontem = ExpCutDay(Result.ultimo_pregao)
        /\ Result.vol_ontem <= ExpFullDay(Result.ultimo_pregao)

\* a valid last session whose bars all lie after the cutoff, and a bar of
\* today exactly at the cutoff that is counted
C4_Witness ==
    /\ Succeeded
    /\ Result.vol_ontem = 0
    /\ Result.vol_hoje > 0
    /\ \A i \in 1..Len(ExpRows) :
          ExpRows[i].time \div MinutesPerDay = ExpHoje =>
              ExpRows[i].time % MinutesPerDay = ExpCutoff

(***************************************************************************)
(* C5: perc_ontem is 0 when vol_ontem is 0 and otherwise                   *)
(* (vol_hoje - vol_ontem) / vol_ontem * 100; perc_medio likewise against   *)
(* vol_medio; no input reaches a division by zero.                         *)
(***************************************************************************)
C5_PercGuard ==
    /\ dados # <<[erro |-> MsgZeroDiv]>>
    /\ Succeeded =>
        LET vh == Result.vol_hoje
            vo == Result.vol_ontem
            m == Result.vol_medio
            po == Result.perc_ontem
            pm == Result.perc_medio
        IN  /\ po[2] # 0 /\ pm[2] # 0
            /\ IF vo = 0 THEN po[1] = 0
               ELSE po[1] * vo = (vh - vo) * 100 * po[2]
            /\ IF m[1] = 0 THEN pm[1] = 0
               ELSE pm[1] * m[1] = (vh * m[2] - m[1]) * 100 * pm[2]

\* a valid last session with cutoff-limited sum 0 and an empty averaging pool
C5_Witness ==
    /\ Succeeded
    /\ Result.vol_ontem = 0
    /\ Result.vol_medio[1] = 0
    /\ Result.vol_hoje > 0
    /\ {d \in ExpNewest(ExpPrior, days[1]) : ExpFullDay(d) > 0} = {}

(***************************************************************************)
(* C6: with days < 1 or missing, calcular_volume_comparativo fails with    *)
(* its invalid-argument error, gives no result, and the terminal is never  *)
(* initialized and never asked for a bar.                                  *)
(***************************************************************************)
C6_InvalidDays ==
    (days = None \/ days[1] < 1) =>
        /\ initialize_calls = 0 /\ fetch_calls = 0 /\ shutdown_calls = 0
        /\ df = None
        /\ ~Succeeded
        /\ entry = "obter_comparacao" =>
            /\ pc \in {"calcular", "except", "done"}
            /\ pc = "except" => exc = [type |-> "ValueError", msg |-> MsgDaysCalc]
            /\ pc = "done" => dados = <<[erro |-> MsgDaysCalc]>>

C6_Witness ==
    /\ entry = "obter_comparacao"
    /\ days = None
    /\ pc = "done"
    /\ dados = <<[erro |-> MsgDaysCalc]>>

(***************************************************************************)
(* C7: once initialize has succeeded, shutdown is called exactly once      *)
(* before obter_dados returns or raises, and never when initialize failed; *)
(* the finally block leaves the exception in flight as it is, and a fetch  *)
(* that built its DataFrame returns it.                                    *)
(***************************************************************************)
InObterDados ==
    pc \in {"od_symbol", "od_range", "od_page", "od_dataframe", "od_finally"}

C7_ShutdownOnce ==
    /\ [](shutdown_calls = IF initialized /\ ~InObterDados THEN 1 ELSE 0)
    /\ [][pc = "od_finally" =>
            /\ exc' = exc
            /\ df # None => (exc' = NoExc /\ pc' # "except")]_vars

\* a failure during pagination survives a shutdown that raised
C7_Witness ==
    /\ pc = "except"
    /\ exc = [type |-> "RuntimeError", msg |-> MsgProvider]
    /\ "exception: shutdown" \in logged
    /\ shutdown_calls = 1

(***************************************************************************)
(* C8: obter_comparacao returns either a complete result (all ten fields)  *)
(* or a record with only the error message, and lets no exception of the   *)
(* model through; exibir_comparacao prints one error line and nothing else *)
(* for the latter, the full report and no error line for the former.       *)
(***************************************************************************)
C8_NoPartialResult ==
    /\ Returned => (DOMAIN Result = {"erro"} \/ DOMAIN Result = TenFields)
    /\ (pc = "done" /\ entry # "obter_dados") =>
          \/ exc = NoExc /\ Returned
          \/ entry = "volume" /\ exc.type = "BadParameter" /\ ~Returned
    /\ pc # "done" => output = <<>>
    /\ (pc = "done" /\ entry = "volume" /\ Returned) =>
          IF "erro" \in DOMAIN Result
          THEN /\ Len(output) = 1
               /\ output[1].echo = "Erro"
               /\ output[1].value = Result.erro
          ELSE /\ Len(output) = 11
               /\ \A i \in 1..11 : output[i].echo # "Erro"

\* the no-prior-session failure, shown as one error line
C8_Witness ==
    /\ pc = "done"
    /\ entry = "volume"
    /\ dados = <<[erro |-> MsgNoPrior]>>
    /\ Len(output) = 1

(***************************************************************************)
(* C9: the bar series obter_dados returns is in ascending order of time on *)
(* every path, the pagination fallback included.                           *)
(***************************************************************************)
C9_Ascending ==
    df # None =>
        \A i \in 1..(Len(ExpRows) - 1) : ExpRows[i].time <= ExpRows[i + 1].time

(***************************************************************************)
(* C10: the pagination loop ends: every page but the last is full, so it   *)
(* issues at most ceil((days + 10) * 1440 / 1000) requests, and a loop     *)
(* that collected no bar ends in the no-data error.                        *)
(***************************************************************************)
C10_PaginationEnds ==
    /\ [](/\ page_requests > 0 =>
               page_requests <=
                   ExpCeilDiv((days[1] + MarginDays) * MinutesPerDay, chunk)
          /\ pc = "od_page" => fetched = page_requests * chunk
          /\ (pc = "od_finally" /\ rates = <<<<>>>>) =>
               (exc = [type |-> "RuntimeError", msg |-> MsgNoData] /\ df = None))
    /\ <>(pc = "done")

\* the window is covered: the largest number of requests is issued
C10_Witness ==
    /\ pc = "od_dataframe"
    /\ page_requests = ExpCeilDiv((days[1] + MarginDays) * MinutesPerDay, chunk)
    /\ fetched >= (days[1] + MarginDays) * MinutesPerDay

=============================================================================
